---- MODULE Spec2Model ----
(***************************************************************************)
(* A model of flask_wrappers/wrappers.py: the decorators catch,            *)
(* json_request, json_request_required and json_response, the JSON encoder *)
(* they use, and RouteFactory.                                             *)
(*                                                                         *)
(* Python values are records [t |-> <type name>, v |-> <payload>].  A str  *)
(* is a sequence of pieces of text: text that comes from data (keys,       *)
(* specifiers, function names, digits) is kept one character per piece,    *)
(* so that split, lower, "in" and concatenation act on characters; a       *)
(* literal of the source is kept as one piece.  A dict is the sequence of  *)
(* its <<key, value>> items in insertion order.                            *)
(***************************************************************************)
EXTENDS Integers, Sequences, FiniteSets, TLC

VARIABLES
    request,    \* flask.request as seen by the call in progress
    func,       \* the callable that was invoked (a stack of decorators)
    args,       \* the positional arguments it was invoked with
    outcome,    \* what the invocation did: returned a value or raised
    app         \* the host router: the registrations made so far

vars == <<request, func, args, outcome, app>>

----------------------------------------------------------------------------
(* Bounds of the model.                                                    *)

MaxRequired == 2
MaxRoutes == 2

----------------------------------------------------------------------------
(* Python values.                                                          *)

None == [t |-> "NoneType", v |-> 0]
PyStr(s) == [t |-> "str", v |-> s]
PyInt(n) == [t |-> "int", v |-> n]
PyBool(b) == [t |-> "bool", v |-> b]
PyFloat(r) == [t |-> "float", v |-> r]
PyList(s) == [t |-> "list", v |-> s]
PyTuple(s) == [t |-> "tuple", v |-> s]
PyDict(items) == [t |-> "dict", v |-> items]

NoExc == [cls |-> "", msg |-> <<>>]
Return(val, calls) == [kind |-> "return", value |-> val, exc |-> NoExc, calls |-> calls]
Raise(cls, msg, calls) ==
    [kind |-> "raise", value |-> None, exc |-> [cls |-> cls, msg |-> msg], calls |-> calls]

DictHas(d, k) == \E i \in 1..Len(d.v) : d.v[i][1] = k
DictGet(d, k) == d.v[CHOOSE i \in 1..Len(d.v) : d.v[i][1] = k][2]
DictSet(d, k, val) ==
    IF DictHas(d, k)
    THEN PyDict([i \in 1..Len(d.v) |-> IF d.v[i][1] = k THEN <<k, val>> ELSE d.v[i]])
    ELSE PyDict(Append(d.v, <<k, val>>))

----------------------------------------------------------------------------
(* str operations used by the source.                                      *)

UpperCase == <<"A","B","C","D","E","F","G","H","I","J","K","L","M",
               "N","O","P","Q","R","S","T","U","V","W","X","Y","Z">>
LowerCase == <<"a","b","c","d","e","f","g","h","i","j","k","l","m",
               "n","o","p","q","r","s","t","u","v","w","x","y","z">>

LowerChar(c) ==
    IF \E i \in 1..Len(UpperCase) : UpperCase[i] = c
    THEN LowerCase[CHOOSE i \in 1..Len(UpperCase) : UpperCase[i] = c]
    ELSE c

\* str.lower()
StrLower(s) == [i \in 1..Len(s) |-> LowerChar(s[i])]

\* sub in s, for two strs
IsSubstr(sub, s) ==
    \E i \in 0..(Len(s) - Len(sub)) : SubSeq(s, i + 1, i + Len(sub)) = sub

\* sep in s, for a one-character sep
HasChar(s, sep) == \E i \in 1..Len(s) : s[i] = sep

RECURSIVE SplitFrom(_, _, _, _)
SplitFrom(s, sep, i, cur) ==
    IF i > Len(s) THEN <<cur>>
    ELSE IF s[i] = sep THEN <<cur>> \o SplitFrom(s, sep, i + 1, <<>>)
    ELSE SplitFrom(s, sep, i + 1, Append(cur, s[i]))

\* s.split(sep): every occurrence of sep separates
StrSplit(s, sep) == SplitFrom(s, sep, 1, <<>>)

RECURSIVE StrJoin(_, _)
\* sep.join(parts)
StrJoin(sep, parts) ==
    IF Len(parts) = 0 THEN <<>>
    ELSE IF Len(parts) = 1 THEN parts[1]
    ELSE parts[1] \o sep \o StrJoin(sep, Tail(parts))

Digits == <<"0","1","2","3","4","5","6","7","8","9">>

RECURSIVE NatStr(_)
NatStr(n) == IF n < 10 THEN <<Digits[n + 1]>> ELSE NatStr(n \div 10) \o <<Digits[(n % 10) + 1]>>

\* str(n) for an int
IntStr(n) == IF n < 0 THEN <<"-">> \o NatStr(-n) ELSE NatStr(n)

\* repr(s) / the quoting of a str inside the repr of a dict
StrRepr(s) == <<"'">> \o s \o <<"'">>

RECURSIVE ItemsRepr(_)
ItemsRepr(items) ==
    IF Len(items) = 0 THEN <<>>
    ELSE StrRepr(items[1][1]) \o <<": ">> \o StrRepr(items[1][2].v)
         \o (IF Len(items) = 1 THEN <<>> ELSE <<", ">> \o ItemsRepr(Tail(items)))

\* "{0}".format(result) for the dict of errors (str keys, str values)
ErrorsRepr(d) == <<"{">> \o ItemsRepr(d.v) \o <<"}">>

----------------------------------------------------------------------------
(* json_request_required.verify_json                                       *)

tAny == <<"a","n","y">>
tStr == <<"s","t","r">>
tInt == <<"i","n","t">>
tFloat == <<"f","l","o","a","t">>
tBool == <<"b","o","o","l">>
tList == <<"l","i","s","t">>
tDict == <<"d","i","c","t">>

\* __types: tag -> type, in insertion order
Types == << <<tAny, "any">>, <<tStr, "str">>, <<tInt, "int">>, <<tFloat, "float">>,
            <<tBool, "bool">>, <<tList, "list">>, <<tDict, "dict">> >>

TypesKeys == [i \in 1..Len(Types) |-> Types[i][1]]
TypesHas(name) == \E i \in 1..Len(Types) : Types[i][1] = name
\* a variant of the lookup below: a tag that is no key falls back to str
TypesGetDefault(name) ==
    IF TypesHas(name) THEN Types[CHOOSE i \in 1..Len(Types) : Types[i][1] = name][2]
    ELSE "str"
\* __types.get(name): the type, or "None" when the tag is no key
TypesGet(name) ==
    IF TypesHas(name) THEN Types[CHOOSE i \in 1..Len(Types) : Types[i][1] = name][2]
    ELSE "None"

\* str(key) for an element of the required list
KeyStr(k) == IF k.t = "int" THEN IntStr(k.v) ELSE k.v

\* _type_name, key = key.split(":"), with _type_name lowered: the parsed
\* pair, or the ValueError of unpacking other than two parts
ParseRequired(key) ==
    IF HasChar(key, ":")
    THEN LET parts == StrSplit(key, ":")
         IN IF Len(parts) = 2
            THEN [ok |-> TRUE, tagged |-> TRUE, tag |-> StrLower(parts[1]), key |-> parts[2]]
            ELSE [ok |-> FALSE, tagged |-> FALSE, tag |-> <<>>, key |-> key]
    ELSE [ok |-> TRUE, tagged |-> FALSE, tag |-> <<>>, key |-> key]

\* key in obj: a dict has keys, a list or tuple has elements, a str has
\* substrings, and anything else is not iterable
Iterable(obj) == obj.t \in {"dict", "list", "tuple", "str"}
Contains(obj, key) ==
    CASE obj.t = "dict" -> DictHas(obj, key)
      [] obj.t \in {"list", "tuple"} ->
            \E i \in 1..Len(obj.v) : obj.v[i].t = "str" /\ obj.v[i].v = key
      [] obj.t = "str" -> IsSubstr(key, obj.v)
      [] OTHER -> FALSE

\* type(obj[key]) is not _type
TypeMismatch(val, type) == val.t # type

InvalidTypeMsg(tag) ==
    tag \o <<" is not a valid type. The valid types are: ">>
        \o StrJoin(<<" ">>, TypesKeys) \o <<".">>

RECURSIVE VerifyLoop(_, _, _, _)
VerifyLoop(obj, required, i, errors) ==
    IF i > Len(required) THEN Return(errors, <<>>)
    ELSE
      LET p == ParseRequired(KeyStr(required[i]))
      IN IF ~p.ok
         THEN Raise("ValueError", <<"too many values to unpack (expected 2)">>, <<>>)
         ELSE IF ~Iterable(obj)
         THEN Raise("TypeError",
                    <<"argument of type '", obj.t, "' is not iterable">>, <<>>)
         ELSE IF ~Contains(obj, p.key)
         THEN VerifyLoop(obj, required, i + 1,
                         DictSet(errors, p.key, PyStr(<<"missing">>)))
         ELSE IF p.tagged /\ p.tag # tAny
         THEN IF TypesGet(p.tag) = "None"
              THEN Raise("AssertionError", InvalidTypeMsg(p.tag), <<>>)
              ELSE IF obj.t # "dict"
              THEN Raise("TypeError", <<obj.t, " indices must be integers">>, <<>>)
              ELSE IF TypeMismatch(DictGet(obj, p.key), TypesGet(p.tag))
              THEN VerifyLoop(obj, required, i + 1,
                              DictSet(errors, p.key,
                                      PyStr(<<"is not of type ">> \o p.tag)))
              ELSE VerifyLoop(obj, required, i + 1, errors)
         ELSE VerifyLoop(obj, required, i + 1, errors)

\* verify_json(obj, required): the dict of errors, or what the loop raised
verify_json(obj, required) == VerifyLoop(obj, required, 1, PyDict(<<>>))

----------------------------------------------------------------------------
(* __JSONEncoder and json.dumps(obj, cls=__JSONEncoder)                    *)

Pad2(n) == IF n < 10 THEN <<"0">> \o NatStr(n) ELSE NatStr(n)
Pad4(n) ==
    IF n < 10 THEN <<"0", "0", "0">> \o NatStr(n)
    ELSE IF n < 100 THEN <<"0", "0">> \o NatStr(n)
    ELSE IF n < 1000 THEN <<"0">> \o NatStr(n)
    ELSE NatStr(n)
Pad6(n) ==
    IF n < 10 THEN <<"0", "0", "0", "0", "0">> \o NatStr(n)
    ELSE IF n < 100 THEN <<"0", "0", "0", "0">> \o NatStr(n)
    ELSE IF n < 1000 THEN <<"0", "0", "0">> \o NatStr(n)
    ELSE IF n < 10000 THEN <<"0", "0">> \o NatStr(n)
    ELSE IF n < 100000 THEN <<"0">> \o NatStr(n)
    ELSE NatStr(n)

\* datetime.datetime.isoformat() of a naive datetime
isoformat(dt) ==
    Pad4(dt.year) \o <<"-">> \o Pad2(dt.month) \o <<"-">> \o Pad2(dt.day) \o <<"T">>
    \o Pad2(dt.hour) \o <<":">> \o Pad2(dt.minute) \o <<":">> \o Pad2(dt.second)
    \o (IF dt.microsecond = 0 THEN <<>> ELSE <<".">> \o Pad6(dt.microsecond))

\* isinstance(obj, datetime.datetime): a date or a time is no datetime
DefaultHandles(obj) == obj.t = "datetime"

Encoded(text) == [ok |-> TRUE, text |-> text, type |-> ""]
NotSerializable(type) == [ok |-> FALSE, text |-> <<>>, type |-> type]

\* the JSON text of a str (the strs of the model need no escape)
JsonString(s) == <<"\"">> \o s \o <<"\"">>

\* str(dt) in place of dt.isoformat(): a space where the T belongs
defaultStr(obj) ==
    IF DefaultHandles(obj)
    THEN Encoded(JsonString([i \in 1..Len(isoformat(obj.v)) |->
                                IF isoformat(obj.v)[i] = "T" THEN " " ELSE isoformat(obj.v)[i]]))
    ELSE NotSerializable(obj.t)
\* __JSONEncoder.default(obj): the ISO text of a datetime, else the
\* TypeError of json.JSONEncoder.default
default(obj) ==
    IF DefaultHandles(obj) THEN Encoded(JsonString(isoformat(obj.v)))
    ELSE NotSerializable(obj.t)

RECURSIVE dumps(_)
RECURSIVE DumpsElems(_, _)
RECURSIVE DumpsItems(_, _)
\* the elements of a list or tuple from index i on, joined with ", "
DumpsElems(elems, i) ==
    IF i > Len(elems) THEN Encoded(<<>>)
    ELSE LET head == dumps(elems[i])
             rest == DumpsElems(elems, i + 1)
         IN IF ~head.ok THEN head
            ELSE IF ~rest.ok THEN rest
            ELSE Encoded(head.text \o (IF i < Len(elems) THEN <<", ">> ELSE <<>>) \o rest.text)
\* the items of a dict (str keys) from index i on
DumpsItems(items, i) ==
    IF i > Len(items) THEN Encoded(<<>>)
    ELSE LET head == dumps(items[i][2])
             rest == DumpsItems(items, i + 1)
         IN IF ~head.ok THEN head
            ELSE IF ~rest.ok THEN rest
            ELSE Encoded(JsonString(items[i][1]) \o <<": ">> \o head.text
                         \o (IF i < Len(items) THEN <<", ">> ELSE <<>>) \o rest.text)
\* json.dumps(obj, cls=__JSONEncoder)
dumps(obj) ==
    CASE obj.t = "NoneType" -> Encoded(<<"null">>)
      [] obj.t = "bool" -> Encoded(IF obj.v THEN <<"true">> ELSE <<"false">>)
      [] obj.t = "int" -> Encoded(IntStr(obj.v))
      [] obj.t = "float" -> Encoded(obj.v)
      [] obj.t = "str" -> Encoded(JsonString(obj.v))
      [] obj.t \in {"list", "tuple"} ->
            LET r == DumpsElems(obj.v, 1)
            IN IF r.ok THEN Encoded(<<"[">> \o r.text \o <<"]">>) ELSE r
      [] obj.t = "dict" ->
            LET r == DumpsItems(obj.v, 1)
            IN IF r.ok THEN Encoded(<<"{">> \o r.text \o <<"}">>) ELSE r
      [] OTHER -> default(obj)

----------------------------------------------------------------------------
(* The decorators.  A callable is a record naming the decorator (d) and    *)
(* the callable it wraps (func); a handler is the innermost callable and   *)
(* either returns a value or raises.  Call(f, a, req) is what f does on   *)
(* arguments a while req is the current request; calls lists the argument  *)
(* tuples the handler was invoked with.                                    *)

Handler(name, beh) == [d |-> "handler", name |-> name, beh |-> beh]
Returns(val) == [kind |-> "return", value |-> val, cls |-> "", msg |-> <<>>]
Raises(cls, msg) == [kind |-> "raise", value |-> None, cls |-> cls, msg |-> msg]

Catch(f) == [d |-> "catch", func |-> f]
JsonRequest(f) == [d |-> "json_request", func |-> f]
RequiredCallback(required, f) ==
    [d |-> "json_request_required.__callback", required |-> required, func |-> f]
\* the decorator json_request_required built on required, applied to f
JsonRequestRequired(required, f) == JsonRequest(RequiredCallback(required, f))
JsonResponse(f) == [d |-> "json_response", func |-> f]

\* str(traceback.format_exc()): the header, the frames, then the class of
\* the exception and, when it has one, its message
format_exc(exc) ==
    <<"Traceback (most recent call last):\n", "  File ...\n", exc.cls>>
    \o (IF exc.msg = <<>> THEN <<>> ELSE <<": ">> \o exc.msg) \o <<"\n">>

\* the body json_request hands on: request.json when that is a dict, else
\* request.json(), which is a TypeError unless request.json is a method
JsonBody(req) ==
    IF req.surface = "property"
    THEN IF req.json.t = "dict" THEN [ok |-> TRUE, body |-> req.json]
         ELSE [ok |-> FALSE, body |-> None]
    ELSE [ok |-> TRUE, body |-> req.json]

\* body is None
JsonBodyMissing(body) == body.t = "NoneType"

\* json_request_required.__verify_json(obj): no requirement passes, a list
\* or tuple given as the only argument is unwrapped
VerifyRequired(required, obj) ==
    IF Len(required) = 0 THEN Return(PyDict(<<>>), <<>>)
    ELSE IF required[1].t \in {"tuple", "list"} THEN verify_json(obj, required[1].v)
    ELSE verify_json(obj, required)

\* a variant of the normalization below: the status of a sequence is taken
\* from its last element
NormalizeBug(result) ==
    IF result.t \notin {"list", "tuple"} THEN <<result, PyInt(200)>>
    ELSE IF Len(result.v) = 0 THEN <<PyStr(<<>>), PyInt(200)>>
    ELSE IF Len(result.v) = 1 THEN <<result.v[1], result.v[1]>>
    ELSE <<result.v[1], result.v[Len(result.v)]>>
\* json_response: the (payload, status) taken from what the handler returned
Normalize(result) ==
    IF result.t \notin {"list", "tuple"} THEN <<result, PyInt(200)>>
    ELSE IF Len(result.v) = 0 THEN <<PyStr(<<>>), PyInt(200)>>
    ELSE IF Len(result.v) = 1 THEN <<result.v[1], PyInt(200)>>
    ELSE <<result.v[1], result.v[2]>>

Response(response, status, mimetype) ==
    [t |-> "Response",
     v |-> [response |-> response, status |-> status, mimetype |-> mimetype]]

\* a variant of the guard below: "except Exception" with a status of 200, so
\* that SystemExit passes through
CaughtBug(r) == IF r.exc.cls = "SystemExit" THEN r
                ELSE Return(PyTuple(<<PyStr(format_exc(r.exc)), PyInt(200)>>), r.calls)
\* catch: what the except clause returns for the failure r
Caught(r) == Return(PyTuple(<<PyStr(format_exc(r.exc)), PyInt(500)>>), r.calls)

RECURSIVE Call(_, _, _)
Call(f, a, req) ==
    CASE f.d = "handler" ->
            IF f.beh.kind = "return" THEN Return(f.beh.value, <<a>>)
            ELSE Raise(f.beh.cls, f.beh.msg, <<a>>)
      [] f.d = "catch" ->
            LET r == Call(f.func, a, req)
            IN IF r.kind = "raise" THEN Caught(r) ELSE r
      [] f.d = "json_request" ->
            LET b == JsonBody(req)
            IN IF ~b.ok
               THEN Raise("TypeError", <<"'", req.json.t, "' object is not callable">>, <<>>)
               ELSE IF JsonBodyMissing(b.body)
               THEN Raise("AssertionError", <<"Request body is not application/json">>, <<>>)
               ELSE Call(f.func, <<b.body>> \o a, req)
      [] f.d = "json_request_required.__callback" ->
            LET result == VerifyRequired(f.required, a[1])
            IN IF result.kind = "raise" THEN result
               ELSE IF Len(result.value.v) > 0
               THEN Raise("AssertionError",
                          <<"Some keys did not meet the requirements: ">>
                              \o ErrorsRepr(result.value), <<>>)
               ELSE Call(f.func, a, req)
      [] f.d = "json_response" ->
            LET r == Call(f.func, a, req)
            IN IF r.kind = "raise" THEN r
               ELSE LET result == Normalize(r.value)
                        text == dumps(result[1])
                    IN IF ~text.ok
                       THEN Raise("TypeError",
                                  <<"Object of type ", text.type, " is not JSON serializable">>,
                                  r.calls)
                       ELSE Return(Response(text.text, result[2], "application/json"),
                                   r.calls)

----------------------------------------------------------------------------
(* RouteFactory.  The options of a call are a function from option names   *)
(* to values.  app is the set of registrations app.route received: the     *)
(* rule, the options, the __name__ and the id of the callback, and, to     *)
(* tell what was asked for, the call of the verb method that made it.      *)

OptionsGet(options, name, dflt) == IF name \in DOMAIN options THEN options[name] ELSE dflt

SeqToSet(s) == { s[i] : i \in 1..Len(s) }

\* a variant of the resolution below: the verb of the method is not added
ResolveMethodsBug(options, method) == SeqToSet(OptionsGet(options, "methods", <<>>))
\* the set built from options.get("methods", []) with method added
ResolveMethods(options, method) ==
    SeqToSet(OptionsGet(options, "methods", <<>>)) \cup {method}

\* [m for m in methods]: the elements of the set once each, in the order
\* the set iterates, which the program does not choose
ListsOf(methods) ==
    { l \in [1..Cardinality(methods) -> methods] : SeqToSet(l) = methods }

\* func.__name__ + str(id(__callback))
CallbackName(name, id) == name \o IntStr(id)

\* the ids of the callbacks the router holds: an id is free for a new
\* object only when no live object has it
LiveIds == { r.id : r \in app }

\* what __wrap_route(route, method, **options)(func) hands to app.route,
\* with id the identity of the new __callback and methods the list built
\* from the set
WrapRoute(route, method, options, name, id, methods) ==
    [rule |-> route,
     options |-> ("methods" :> methods) @@ options,
     name |-> CallbackName(name, id),
     id |-> id,
     asked |-> [route |-> route, method |-> method, options |-> options, name |-> name]]

----------------------------------------------------------------------------
(* The inputs the model draws from.                                        *)

sA == <<"a">>
sB == <<"b">>
sAB == <<"a", ":", "b">>
tWeird == <<"w","e","i","r","d">>
tIntUpper == <<"I","N","T">>

Tagged(tag, key) == tag \o <<":">> \o key

Specifiers ==
    { sA, sB, Tagged(tInt, sA), Tagged(tIntUpper, sA), Tagged(tStr, sA),
      Tagged(tAny, sA), Tagged(tBool, sB), Tagged(tFloat, sB), Tagged(tList, sB),
      Tagged(tWeird, sB), Tagged(tInt, sAB), Tagged(tWeird, sAB) }

RequiredLists == UNION { [1..n -> Specifiers] : n \in 0..MaxRequired }

\* the values of key a and of key b in the bodies
FieldValuesA == { PyInt(12), PyStr(<<"1", "2">>), PyBool(TRUE), None }
FieldValuesB == { PyBool(TRUE), PyFloat(<<"1", ".", "5">>), PyList(<<>>), PyDict(<<>>) }

Absent == [t |-> "absent", v |-> 0]

Item(k, val) == IF val.t = "absent" THEN <<>> ELSE << <<k, val>> >>

Bodies ==
    { PyDict(Item(sA, x) \o Item(sB, y)) :
          x \in FieldValuesA \cup {Absent}, y \in FieldValuesB \cup {Absent} }
    \cup { PyDict(Item(sAB, PyInt(12))), PyDict(Item(sA, PyInt(12)) \o Item(sAB, PyInt(12))) }

NoRequest == [surface |-> "none", json |-> None]
NoFunc == [d |-> "none"]

RequestBodies ==
    { PyDict(<<>>),
      PyDict(Item(sA, PyInt(12))),
      PyDict(Item(sA, PyStr(<<"1", "2">>))),
      PyDict(Item(sA, PyBool(TRUE))),
      PyDict(Item(sA, PyInt(12)) \o Item(sB, PyFloat(<<"1", ".", "5">>))),
      PyDict(Item(sB, PyBool(TRUE))),
      PyDict(Item(sAB, PyInt(12))) }

\* request.json: None for no JSON body, else the decoded JSON value
JsonValues ==
    RequestBodies \cup { None, PyList(<<PyStr(sA)>>), PyStr(sA), PyInt(12) }

\* request.json is a property (the value) or a method (returning it)
Requests == { [surface |-> s, json |-> j] : s \in {"property", "method"}, j \in JsonValues }

hName == <<"h">>
ArgLists == { <<>>, <<PyInt(7)>> }

Instant == [t |-> "datetime",
            v |-> [year |-> 2024, month |-> 1, day |-> 1, hour |-> 0, minute |-> 0,
                   second |-> 0, microsecond |-> 0]]
InstantMicro == [t |-> "datetime",
                 v |-> [year |-> 987, month |-> 12, day |-> 31, hour |-> 23, minute |-> 59,
                        second |-> 7, microsecond |-> 1500]]
Day == [t |-> "date", v |-> [year |-> 2024, month |-> 1, day |-> 1]]
TimeOfDay == [t |-> "time", v |-> [hour |-> 12, minute |-> 30, second |-> 0, microsecond |-> 0]]
Opaque == [t |-> "object", v |-> 0]

Payloads ==
    { None, PyInt(1), PyStr(<<"o", "k">>), PyBool(FALSE), PyFloat(<<"1", ".", "5">>),
      PyDict(Item(sA, PyInt(1))),
      Instant, InstantMicro, Day, TimeOfDay, Opaque,
      PyDict(Item(sA, Instant)),
      PyDict(Item(sA, PyList(<<PyInt(1), InstantMicro>>)) \o Item(sB, PyStr(sB))),
      PyDict(Item(sA, Day)),
      PyList(<<TimeOfDay>>),
      PyDict(Item(sA, PyDict(Item(sB, Opaque)))) }

Statuses == { PyInt(201), PyInt(404) }

\* what a handler under json_response returns: a bare payload, or a list
\* or tuple of up to three elements
Sequences3 ==
    { <<>> } \cup { <<p>> : p \in Payloads }
    \cup { <<p, s>> : p \in Payloads, s \in Statuses }
    \cup { <<p, s, x>> : p \in {PyInt(1), Instant}, s \in Statuses, x \in {None, PyInt(500)} }
    \cup { <<PyList(<<>>), PyInt(201)>>, <<PyTuple(<<PyInt(1), PyInt(404)>>)>> }

ReturnValues ==
    Payloads \cup { PyTuple(q) : q \in Sequences3 } \cup { PyList(q) : q \in Sequences3 }

Failures ==
    { Raises("ValueError", <<"boom">>), Raises("RuntimeError", <<>>),
      Raises("SystemExit", <<"1">>), Raises("KeyboardInterrupt", <<>>) }

\* the required arguments of json_request_required, in either call style
Required(style, specs) ==
    LET strs == [i \in 1..Len(specs) |-> PyStr(specs[i])]
    IN IF style = "args" THEN strs ELSE << PyList(strs) >>

Styles == { "args", "list" }

\* the stacks of decorators put under catch
StackRequired == { <<Tagged(tInt, sA)>>, <<Tagged(tWeird, sA)>>, <<Tagged(tInt, sAB)>>, <<sB>> }
Behaviours ==
    Failures \cup { Returns(PyInt(1)), Returns(PyTuple(<<PyStr(sA), PyInt(201)>>)),
                    Returns(Opaque), Returns(Day) }
Stacks ==
    UNION { { Handler(hName, b),
              JsonRequest(Handler(hName, b)),
              JsonResponse(Handler(hName, b)),
              JsonResponse(JsonRequest(Handler(hName, b))) }
            \cup { JsonRequestRequired(Required("args", r), Handler(hName, b))
                       : r \in StackRequired }
            \cup { JsonResponse(JsonRequestRequired(Required("list", r), Handler(hName, b)))
                       : r \in StackRequired }
            : b \in Behaviours }

Routes == { "/", "/x" }
CallerOptions ==
    { << >>,
      [methods |-> <<>>, strict_slashes |-> FALSE],
      [methods |-> <<"GET", "GET">>] }
FuncNames == { <<"h">>, <<"h", "1">> }
IdPool == { 2, 12, 3 }

----------------------------------------------------------------------------
(* The state machine.                                                      *)

Init ==
    /\ request = NoRequest
    /\ func = NoFunc
    /\ args = <<>>
    /\ outcome = Return(None, <<>>)
    /\ app = {}

Invoke(f, a, req) ==
    /\ request' = req
    /\ func' = f
    /\ args' = a
    /\ outcome' = Call(f, a, req)
    /\ UNCHANGED app

\* json_request_required.verify_json(obj, required), called directly
VerifyJson ==
    /\ func = NoFunc
    /\ \E obj \in Bodies, required \in RequiredLists :
        /\ request' = NoRequest
        /\ func' = [d |-> "verify_json"]
        /\ args' = <<obj, PyList([i \in 1..Len(required) |-> PyStr(required[i])])>>
        /\ outcome' = verify_json(obj, [i \in 1..Len(required) |-> PyStr(required[i])])
        /\ UNCHANGED app

\* a request to an endpoint decorated with json_request
CallJsonRequest ==
    /\ func = NoFunc
    /\ \E req \in Requests, a \in ArgLists,
          b \in { Returns(PyInt(1)), Returns(None), Raises("ValueError", <<"boom">>) } :
        Invoke(JsonRequest(Handler(hName, b)), a, req)

\* a request to an endpoint decorated with json_request_required
CallRequired ==
    /\ func = NoFunc
    /\ \E req \in Requests, specs \in RequiredLists, style \in Styles :
        Invoke(JsonRequestRequired(Required(style, specs), Handler(hName, Returns(PyInt(1)))),
               <<>>, req)

\* a call of an endpoint decorated with json_response
CallJsonResponse ==
    /\ func = NoFunc
    /\ \E b \in { Returns(r) : r \in ReturnValues } \cup Failures, a \in ArgLists :
        Invoke(JsonResponse(Handler(hName, b)), a, NoRequest)

\* a request to an endpoint whose outermost decorator is catch
CallCatch ==
    /\ func = NoFunc
    /\ \E f \in Stacks, req \in Requests, a \in ArgLists :
        Invoke(Catch(f), a, req)

\* the call is over; the next one starts from nothing, as no decorator keeps state
Finish ==
    /\ func # NoFunc
    /\ request' = NoRequest
    /\ func' = NoFunc
    /\ args' = <<>>
    /\ outcome' = Return(None, <<>>)
    /\ UNCHANGED app

NextRequest ==
    \/ VerifyJson
    \/ CallJsonRequest
    \/ CallRequired
    \/ CallJsonResponse
    \/ CallCatch
    \/ Finish

SpecRequest == Init /\ [][NextRequest]_vars

\* RouteFactory.options(route, **options)(func)
options ==
    /\ Cardinality(app) < MaxRoutes
    /\ \E route \in Routes, opts \in CallerOptions, name \in FuncNames,
          id \in IdPool \ LiveIds :
        \E methods \in ListsOf(ResolveMethods(opts, "OPTIONS")) :
            app' = app \cup { WrapRoute(route, "OPTIONS", opts, name, id, methods) }
    /\ UNCHANGED <<request, func, args, outcome>>

\* RouteFactory.get(route, **options)(func)
get ==
    /\ Cardinality(app) < MaxRoutes
    /\ \E route \in Routes, opts \in CallerOptions, name \in FuncNames,
          id \in IdPool \ LiveIds :
        \E methods \in ListsOf(ResolveMethods(opts, "GET")) :
            app' = app \cup { WrapRoute(route, "GET", opts, name, id, methods) }
    /\ UNCHANGED <<request, func, args, outcome>>

\* RouteFactory.post(route, **options)(func)
post ==
    /\ Cardinality(app) < MaxRoutes
    /\ \E route \in Routes, opts \in CallerOptions, name \in FuncNames,
          id \in IdPool \ LiveIds :
        \E methods \in ListsOf(ResolveMethods(opts, "POST")) :
            app' = app \cup { WrapRoute(route, "POST", opts, name, id, methods) }
    /\ UNCHANGED <<request, func, args, outcome>>

\* RouteFactory.put(route, **options)(func)
put ==
    /\ Cardinality(app) < MaxRoutes
    /\ \E route \in Routes, opts \in CallerOptions, name \in FuncNames,
          id \in IdPool \ LiveIds :
        \E methods \in ListsOf(ResolveMethods(opts, "PUT")) :
            app' = app \cup { WrapRoute(route, "PUT", opts, name, id, methods) }
    /\ UNCHANGED <<request, func, args, outcome>>

\* RouteFactory.delete(route, **options)(func)
delete ==
    /\ Cardinality(app) < MaxRoutes
    /\ \E route \in Routes, opts \in CallerOptions, name \in FuncNames,
          id \in IdPool \ LiveIds :
        \E methods \in ListsOf(ResolveMethods(opts, "DELETE")) :
            app' = app \cup { WrapRoute(route, "DELETE", opts, name, id, methods) }
    /\ UNCHANGED <<request, func, args, outcome>>

NextRoute == options \/ get \/ post \/ put \/ delete

SpecRoute == Init /\ [][NextRoute]_vars

----------------------------------------------------------------------------
(* What the properties below read off a state.                             *)

\* a specifier as the documentation reads it: split once on the first ":"
\* (the tag before it, lowered as the type table is keyed, the key after
\* it), and tag any when there is none
FirstColon(s) == CHOOSE i \in 1..Len(s) : s[i] = ":" /\ \A j \in 1..(i - 1) : s[j] # ":"
DocTag(s) == IF HasChar(s, ":") THEN StrLower(SubSeq(s, 1, FirstColon(s) - 1)) ELSE tAny
DocKey(s) == IF HasChar(s, ":") THEN SubSeq(s, FirstColon(s) + 1, Len(s)) ELSE s
ColonCount(s) == Cardinality({ i \in 1..Len(s) : s[i] = ":" })

KnownTags == { tAny, tStr, tInt, tFloat, tBool, tList, tDict }
TagType(tag) ==
    CASE tag = tStr -> "str" [] tag = tInt -> "int" [] tag = tFloat -> "float"
      [] tag = tBool -> "bool" [] tag = tList -> "list" [] tag = tDict -> "dict"
      [] OTHER -> "any"

IsVerifyCall == func.d = "verify_json"
IsRequiredCall ==
    /\ func.d = "json_request"
    /\ func.func.d = "json_request_required.__callback"
IsJsonRequestCall == func.d = "json_request" /\ func.func.d = "handler"
IsJsonResponseCall == func.d = "json_response" /\ func.func.d = "handler"
IsCatchCall == func.d = "catch"

\* the specifiers a call was made with, in either call style
DeclaredOf(required) ==
    IF Len(required) > 0 /\ required[1].t = "list"
    THEN [i \in 1..Len(required[1].v) |-> required[1].v[i].v]
    ELSE [i \in 1..Len(required) |-> required[i].v]
Declared == IF IsVerifyCall THEN DeclaredOf(args[2].v) ELSE DeclaredOf(func.func.required)
\* the body validated
Validated == IF IsVerifyCall THEN args[1] ELSE request.json

Present(body, s) == DictHas(body, DocKey(s))
Mismatched(body, s) ==
    /\ Present(body, s)
    /\ DocTag(s) # tAny
    /\ DocTag(s) \in KnownTags
    /\ DictGet(body, DocKey(s)).t # TagType(DocTag(s))
Failing(body, s) == ~Present(body, s) \/ Mismatched(body, s)
UnknownTag(s) == DocTag(s) \notin KnownTags

Indices(specs) == 1..Len(specs)
ErrorKeys(errors) == { errors.v[i][1] : i \in 1..Len(errors.v) }

----------------------------------------------------------------------------
(* The properties.                                                         *)

\* C1: json_request fails with an AssertionError, without invoking the
\* handler, whenever request.json is None or no mapping, and invokes the
\* handler with exactly the mapping first and the other arguments unchanged
\* whenever request.json is a mapping.
C1_JsonRequestContract ==
    IsJsonRequestCall =>
        IF request.json.t = "dict"
        THEN outcome.calls = << <<request.json>> \o args >>
        ELSE /\ outcome.kind = "raise"
             /\ outcome.exc.cls = "AssertionError"
             /\ outcome.calls = <<>>

\* C2: for a body mapping and specifiers whose tags are all in the type
\* table, verify_json returns the mapping whose keys are exactly the
\* required keys that are absent ("missing") or present with a value of
\* another exact type ("is not of type <tag>"); tag any and bare keys never
\* mismatch; no specifier gives the empty mapping.
C2_VerifyJsonResult ==
    (IsVerifyCall /\ \A i \in Indices(Declared) : ~UnknownTag(Declared[i])) =>
        /\ outcome.kind = "return"
        /\ outcome.value.t = "dict"
        /\ ErrorKeys(outcome.value) =
               { DocKey(Declared[i]) : i \in { j \in Indices(Declared) :
                                                 Failing(Validated, Declared[j]) } }
        /\ \A n \in 1..Len(outcome.value.v) :
               LET key == outcome.value.v[n][1]
                   why == outcome.value.v[n][2].v
               IN IF ~DictHas(Validated, key) THEN why = <<"missing">>
                  ELSE \E i \in Indices(Declared) :
                          /\ DocKey(Declared[i]) = key
                          /\ Mismatched(Validated, Declared[i])
                          /\ why = <<"is not of type ">> \o DocTag(Declared[i])
        /\ (Len(Declared) = 0 => outcome.value = PyDict(<<>>))

\* C3: json_request_required invokes the handler only if every required key
\* is in the body with the exact declared type, and then with the body
\* unchanged; if a required key is missing or mismatched the request fails
\* with an AssertionError that tells every failing key and the handler is
\* not invoked; this in either call style.
C3_RequiredContract ==
    (IsRequiredCall /\ request.json.t = "dict") =>
        /\ outcome.calls # <<>> =>
              /\ \A i \in Indices(Declared) : ~Failing(Validated, Declared[i])
              /\ outcome.calls = << <<request.json>> \o args >>
        /\ (\E i \in Indices(Declared) : Failing(Validated, Declared[i])) =>
              /\ outcome.calls = <<>>
              /\ outcome.kind = "raise"
              /\ outcome.exc.cls = "AssertionError"
              /\ \A i \in Indices(Declared) :
                     Failing(Validated, Declared[i]) =>
                         IsSubstr(StrRepr(DocKey(Declared[i])), outcome.exc.msg)

\* the message of the configuration error: the tag, then every valid tag
NamesTag(msg, tag) ==
    /\ Len(msg) > Len(tag)
    /\ SubSeq(msg, 1, Len(tag)) = tag
    /\ \A t \in KnownTags : IsSubstr(t, SubSeq(msg, Len(tag) + 1, Len(msg)))

ConfigurationError(tag) ==
    /\ outcome.kind = "raise"
    /\ outcome.exc.cls = "AssertionError"
    /\ NamesTag(outcome.exc.msg, tag)
    /\ outcome.calls = <<>>

\* C4, as claimed: a specifier list holding a specifier with a tag outside
\* the type table makes the validation of any body raise the configuration
\* error naming that tag and listing the valid tags.
C4_UnknownTagAlwaysRaises ==
    ((IsVerifyCall \/ IsRequiredCall) /\ Validated.t = "dict") =>
        \A i \in Indices(Declared) :
            UnknownTag(Declared[i]) =>
                \E j \in Indices(Declared) :
                    UnknownTag(Declared[j]) /\ ConfigurationError(DocTag(Declared[j]))

\* the specifiers at which the loop of verify_json stops: a tag outside the
\* table on a key the body has, or more than one ":"
Stops(body, s) == ColonCount(s) > 1 \/ (UnknownTag(s) /\ Present(body, s))

\* C4, amended: a specifier with a tag outside the type table whose key IS
\* in the body makes validation raise, with no validation result and no
\* call of the handler; the error is the configuration error naming the tag
\* and listing the valid tags when that specifier holds a single ":" and is
\* the first at which validation stops.  With the key absent the specifier
\* is reported "missing" like any other.
C4_UnknownTagOnPresentKey ==
    ((IsVerifyCall \/ IsRequiredCall) /\ Validated.t = "dict") =>
        \A i \in Indices(Declared) :
            LET s == Declared[i]
                first == \A j \in 1..(i - 1) : ~Stops(Validated, Declared[j])
            IN /\ (UnknownTag(s) /\ Present(Validated, s)) =>
                      /\ outcome.kind = "raise"
                      /\ outcome.calls = <<>>
                      /\ (first /\ ColonCount(s) = 1) => ConfigurationError(DocTag(s))
               /\ (UnknownTag(s) /\ ~Present(Validated, s)
                      /\ \A j \in Indices(Declared) : ~Stops(Validated, Declared[j])) =>
                      /\ outcome.kind = (IF IsVerifyCall THEN "return" ELSE "raise")
                      /\ IsVerifyCall => DictHas(outcome.value, DocKey(s))
                      /\ IsVerifyCall => DictGet(outcome.value, DocKey(s)).v = <<"missing">>
                      /\ IsRequiredCall =>
                            IsSubstr(StrRepr(DocKey(s)) \o <<": ">> \o StrRepr(<<"missing">>),
                                     outcome.exc.msg)

\* a validation under the decorator that stopped at an unknown tag on a key
\* of the body, after a specifier that passed
C4_Witness ==
    /\ IsRequiredCall
    /\ Validated.t = "dict"
    /\ Len(Declared) = 2
    /\ ~UnknownTag(Declared[1])
    /\ UnknownTag(Declared[2])
    /\ Present(Validated, Declared[2])
    /\ ConfigurationError(tWeird)

\* C5: catch(h) returns what h returns, unchanged, and turns any failure of
\* h, whatever decorators h is made of, into the pair of the trace text,
\* which holds the class and the message of the failure, and 500.
C5_CatchGuards ==
    IsCatchCall =>
        LET inner == Call(func.func, args, request)
        IN /\ outcome.kind = "return"
           /\ outcome.calls = inner.calls
           /\ inner.kind = "return" => outcome.value = inner.value
           /\ inner.kind = "raise" =>
                 /\ outcome.value.t = "tuple"
                 /\ Len(outcome.value.v) = 2
                 /\ outcome.value.v[2] = PyInt(500)
                 /\ outcome.value.v[1].t = "str"
                 /\ IsSubstr(<<inner.exc.cls>>, outcome.value.v[1].v)
                 /\ IsSubstr(inner.exc.msg, outcome.value.v[1].v)

\* a failure of the validation layer under catch, reported as 500
C5_Witness ==
    /\ IsCatchCall
    /\ func.func.d = "json_request"
    /\ func.func.func.d = "json_request_required.__callback"
    /\ outcome.kind = "return"
    /\ outcome.value.t = "tuple"
    /\ outcome.value.v[2] = PyInt(500)
    /\ IsSubstr(<<"AssertionError", ": ", "Some keys did not meet the requirements: ">>,
                outcome.value.v[1].v)

\* the (payload, status) the documentation gives for a returned value
DocPayload(r) ==
    IF r.t \notin {"list", "tuple"} THEN r
    ELSE IF Len(r.v) = 0 THEN PyStr(<<>>)
    ELSE r.v[1]
DocStatus(r) ==
    IF r.t \notin {"list", "tuple"} THEN PyInt(200)
    ELSE IF Len(r.v) < 2 THEN PyInt(200)
    ELSE r.v[2]

Returned == func.func.beh.value
HandlerReturns == IsJsonResponseCall /\ func.func.beh.kind = "return"

\* C6: the response of json_response has (payload, status) = (r, 200) for r
\* no list or tuple, ("", 200) for length 0, (r[0], 200) for length 1 and
\* (r[0], r[1]) from length 2 on; its body is the JSON text of the payload
\* and its type application/json.
C6_ResponseNormalized ==
    HandlerReturns =>
        IF outcome.kind = "return"
        THEN /\ outcome.value.t = "Response"
             /\ dumps(DocPayload(Returned)).ok
             /\ outcome.value.v.response = dumps(DocPayload(Returned)).text
             /\ outcome.value.v.status = DocStatus(Returned)
             /\ outcome.value.v.mimetype = "application/json"
        ELSE ~dumps(DocPayload(Returned)).ok

\* a tuple of three: the third element is ignored
C6_Witness ==
    /\ HandlerReturns
    /\ Returned.t = "tuple"
    /\ Len(Returned.v) = 3
    /\ outcome.kind = "return"
    /\ outcome.value.v.status = PyInt(404)
    /\ outcome.value.v.response = <<"1">>

\* the values inside a payload, at any depth
RECURSIVE Inside(_)
Inside(x) ==
    {x} \cup
    (CASE x.t \in {"list", "tuple"} -> UNION { Inside(x.v[i]) : i \in 1..Len(x.v) }
       [] x.t = "dict" -> UNION { Inside(x.v[i][2]) : i \in 1..Len(x.v) }
       [] OTHER -> {})

\* the ISO-8601 text of the date/time values of the model
IsoText(x) ==
    CASE x = Instant ->
            <<"2","0","2","4","-","0","1","-","0","1","T","0","0",":","0","0",":","0","0">>
      [] x = InstantMicro ->
            <<"0","9","8","7","-","1","2","-","3","1","T","2","3",":","5","9",":","0","7",
              ".","0","0","1","5","0","0">>
      [] x = Day -> <<"2","0","2","4","-","0","1","-","0","1">>
      [] x = TimeOfDay -> <<"1","2",":","3","0",":","0","0">>

DateTimeValued(x) == x.t \in {"datetime", "date", "time"}
JsonNative(x) == x.t \in {"NoneType", "bool", "int", "float", "str", "list", "tuple", "dict"}

Payload == DocPayload(Returned)

\* C7, as claimed: every date, time of day or date-time in the payload, at
\* any depth, is encoded as its ISO-8601 string, and serialization fails
\* with a TypeError only on a value that is neither JSON nor date/time.
C7_EveryDateTimeValueEncoded ==
    HandlerReturns =>
        IF \A x \in Inside(Payload) : JsonNative(x) \/ DateTimeValued(x)
        THEN /\ outcome.kind = "return"
             /\ \A x \in Inside(Payload) :
                    DateTimeValued(x) =>
                        IsSubstr(<<"\"">> \o IsoText(x) \o <<"\"">>, outcome.value.v.response)
        ELSE outcome.kind = "raise" /\ outcome.exc.cls = "TypeError"

\* C7, amended: every datetime.datetime (combined date-time) in the
\* payload, at any depth, is encoded as its ISO-8601 string; every other
\* value uses the standard JSON encoding; and a value that is neither JSON
\* nor a datetime.datetime (a date alone and a time of day included) makes
\* serialization fail with a TypeError.
C7_DatetimeEncoded ==
    HandlerReturns =>
        /\ IF \A x \in Inside(Payload) : JsonNative(x) \/ x.t = "datetime"
           THEN /\ outcome.kind = "return"
                /\ \A x \in Inside(Payload) :
                       x.t = "datetime" =>
                           IsSubstr(<<"\"">> \o IsoText(x) \o <<"\"">>,
                                    outcome.value.v.response)
           ELSE outcome.kind = "raise" /\ outcome.exc.cls = "TypeError"
        /\ Payload = Instant =>
              outcome.value.v.response = <<"\"">> \o IsoText(Instant) \o <<"\"">>
        /\ Payload = PyDict(Item(sA, PyList(<<PyInt(1), InstantMicro>>)) \o Item(sB, PyStr(sB))) =>
              outcome.value.v.response =
                  <<"{", "\"", "a", "\"", ": ", "[", "1", ", ", "\"">> \o IsoText(InstantMicro)
                  \o <<"\"", "]", ", ", "\"", "b", "\"", ": ", "\"", "b", "\"", "}">>

\* a datetime nested in a list in a dict, serialized
C7_Witness ==
    /\ HandlerReturns
    /\ Payload.t = "dict"
    /\ InstantMicro \in Inside(Payload)
    /\ outcome.kind = "return"
    /\ IsSubstr(IsoText(InstantMicro), outcome.value.v.response)

\* C8: the names under which the callbacks are registered are pairwise
\* distinct, whatever the names of the handlers and the ids of the callbacks.
C8_NamesDistinct ==
    \A r1, r2 \in app : r1.id # r2.id => r1.name # r2.name

\* C9: each registration carries exactly the verbs the caller gave plus the
\* verb of the method used, each once, with the path and the other options
\* as given.
C9_VerbSet ==
    \A r \in app :
        LET given == r.asked.options
            verbs == r.options["methods"]
        IN /\ SeqToSet(verbs) =
                  (IF "methods" \in DOMAIN given THEN SeqToSet(given["methods"]) ELSE {})
                  \cup {r.asked.method}
           /\ \A i, j \in 1..Len(verbs) : verbs[i] = verbs[j] => i = j
           /\ r.rule = r.asked.route
           /\ DOMAIN r.options = DOMAIN given \cup {"methods"}
           /\ \A k \in DOMAIN given \ {"methods"} : r.options[k] = given[k]

\* put with methods ["GET", "GET"]: PUT is added, GET is kept once
C9_Witness ==
    \E r \in app :
        /\ r.asked.method = "PUT"
        /\ "methods" \in DOMAIN r.asked.options
        /\ r.asked.options["methods"] = <<"GET", "GET">>
        /\ r.options["methods"] = <<"PUT", "GET">>
        /\ \E q \in app : q.asked.method = "GET" /\ "methods" \notin DOMAIN q.asked.options
                            /\ q.options["methods"] = <<"GET">>

\* C10: parsing a specifier never fails; without ":" it is (any, the whole
\* string), and with ":" it is split once on the first ":", the key being
\* all that follows, further ":" included.
C10_ParseNeverFails ==
    IsVerifyCall =>
        /\ ~(outcome.kind = "raise" /\ outcome.exc.cls = "ValueError")
        /\ \A i \in Indices(Declared) :
               LET p == ParseRequired(Declared[i])
               IN /\ p.ok
                  /\ p.key = DocKey(Declared[i])
                  /\ (IF p.tagged THEN p.tag ELSE tAny) = DocTag(Declared[i])

====
